---- MODULE Spec2Model ----
(***************************************************************************)
(* Plandy AI: the Supervisor routing protocol, the five domain handlers    *)
(* and the workflow graph, modelled from src/agents/nodes/*.py,            *)
(* src/agents/graph.py, src/agents/communication_agent.py, src/api.py,     *)
(* src/models/state.py and src/main.py.                                    *)
(*                                                                         *)
(* The specifications share the variables:                                 *)
(*   SpecDecide  decide_next_task applied to inputs drawn from bounded     *)
(*               sets (a function of the call count and the LLM outcome);  *)
(*   Spec        the node functions applied in any order to one            *)
(*               SharedState created by create_initial_state;              *)
(*   SpecGraph   one streamed run of the graph built by _build_langgraph;  *)
(*   SpecEngine  one run of either engine (compiled graph or MockGraph)    *)
(*               in either mode (invoke or astream);                       *)
(*   SpecMerge   a delta merged into a state (dict.update);                *)
(*   SpecCache   appends to CommunicationAgent.conversation_history;       *)
(*   SpecScore   the balance score of analyze_worklife_balance applied to  *)
(*               the store's answer, today's hours and health_data;        *)
(*   SpecTransport  one request served by a streaming transport of api.py  *)
(*               (SSE or WebSocket); FairTransport adds that the           *)
(*               generator runs to its end;                                *)
(*   SpecRuns    one run by either engine or by a streaming transport;     *)
(*   SpecPair    one request run by the mock engine and then by the        *)
(*               compiled graph with the same outcomes;                    *)
(*   SpecSessions  one request served alone and then again while a second  *)
(*               request is served on the same event loop.                 *)
(*                                                                         *)
(* Python lists and Task objects are shared by reference: a node that      *)
(* appends to state["messages"] or sets task_history[-1].done changes the  *)
(* object the caller holds.  A Task is therefore identified by its         *)
(* position in task_history (every Task is created by supervisor_node and  *)
(* appended at once), and current_task is such a position, 0 for None.     *)
(***************************************************************************)
EXTENDS Integers, Sequences, FiniteSets, TLC

(* ------------------------------ bounds -------------------------------- *)
MaxLines == 2
MaxCount == 5
MaxEvents == 3
MaxMessages == 3

(* --------------------------- data model ------------------------------- *)
HEALTH == "health_agent"
PLAN == "plan_agent"
DATA == "data_agent"
WORKLIFE == "worklife_balance_agent"
COMM == "communication_agent"
SUPERVISOR == "supervisor"

Handlers == {HEALTH, PLAN, DATA, WORKLIFE, COMM}

\* Task.agent: the Literal of the pydantic model
TaskAgents == Handlers \cup {SUPERVISOR}

NoTask == 0
NoHealth == [present |-> FALSE, stress_level |-> 0]
NoSchedule == [present |-> FALSE]
NoWorkLife == [present |-> FALSE, balance_score |-> 0]
NoDecision == [agent |-> "", description |-> "", priority |-> 0]
NoResponse == [agent |-> "", kind |-> ""]
NoFailure == [llm |-> "ok", store |-> "ok", fault |-> "none"]
NoCall == [node |-> "", outcome |-> "", env |-> NoFailure]

BUDGET_DESCRIPTION == "budget exceeded: report progress to the user"
DEFAULT_DESCRIPTION == "handle the user's request"
DEFAULT_PRIORITY == 5
BUDGET_PRIORITY == 1
CALL_LIMIT == 3

\* Task(agent=..., done=False, description=..., done_at="", priority=...)
Task(agent, description, priority) ==
    [agent |-> agent, done |-> FALSE, description |-> description,
     done_at |-> "", priority |-> priority]

(* ------------------- the Supervisor's reply parser -------------------- *)
\* A reply is a sequence of lines.  A line is a record: colon says whether
\* the line contains ':', key and value are the raw texts on both sides of
\* the first colon.
AgentValues == TaskAgents \cup {"Plan Agent", ""}

Lines ==
    {[colon |-> TRUE, key |-> "agent", value |-> v] : v \in AgentValues}
    \cup {[colon |-> TRUE, key |-> " Agent", value |-> PLAN],
          [colon |-> TRUE, key |-> "description", value |-> "llm description"],
          [colon |-> TRUE, key |-> "priority", value |-> " 7"],
          [colon |-> TRUE, key |-> "priority", value |-> "high"],
          [colon |-> TRUE, key |-> "note", value |-> "x"],
          [colon |-> FALSE, key |-> "", value |-> ""]}

\* key.strip().lower()
NormKey(k) ==
    CASE k = " Agent" -> "agent"
      [] OTHER -> k

\* value.strip()
Strip(v) ==
    CASE v = " 7" -> "7"
      [] OTHER -> v

\* int(value) succeeds on a decimal literal and raises ValueError otherwise
IsInt(v) == v \in {"7", "1"}

IntOf(v) ==
    CASE v = "7" -> 7
      [] v = "1" -> 1
      [] OTHER -> 0

\* the dict `result` of the scan: the keys set so far and their values
EmptyResult == [keys |-> {}, agent |-> "", description |-> "", priority |-> 0]

\* result[key] = value for the lines seen so far; a later line overwrites
RECURSIVE ScanLines(_, _)
ScanLines(lines, result) ==
    IF lines = <<>> THEN result
    ELSE LET line == Head(lines)
             key == NormKey(line.key)
             value == Strip(line.value)
             next ==
                 IF ~line.colon THEN result
                 ELSE IF key = "agent"
                      THEN [result EXCEPT !.agent = value,
                                          !.keys = @ \cup {"agent"}]
                 ELSE IF key = "description"
                      THEN [result EXCEPT !.description = value,
                                          !.keys = @ \cup {"description"}]
                 ELSE IF key = "priority"
                      THEN [result EXCEPT !.priority =
                               IF IsInt(value) THEN IntOf(value)
                               ELSE DEFAULT_PRIORITY,
                                          !.keys = @ \cup {"priority"}]
                 ELSE result
         IN ScanLines(Tail(lines), next)

DefaultTriple ==
    [agent |-> COMM, description |-> DEFAULT_DESCRIPTION,
     priority |-> DEFAULT_PRIORITY]

BudgetTriple ==
    [agent |-> COMM, description |-> BUDGET_DESCRIPTION,
     priority |-> BUDGET_PRIORITY]

ParseReply(lines) ==
    LET result == ScanLines(lines, EmptyResult)
    IN [agent |-> IF "agent" \in result.keys THEN result.agent ELSE COMM,
        description |-> IF "description" \in result.keys
                        THEN result.description ELSE DEFAULT_DESCRIPTION,
        priority |-> IF "priority" \in result.keys
                     THEN result.priority ELSE DEFAULT_PRIORITY]

\* An outcome of llm.invoke: it raises, or it returns a reply
Raised == [raised |-> TRUE, lines |-> <<>>]
Reply(lines) == [raised |-> FALSE, lines |-> lines]

\* the LLM is consulted only below the call limit
LLMConsulted(count) == ~(count > CALL_LIMIT)

\* the limit test off by one: the budget branch taken from the fifth call on
decide_next_task_late_limit(count, out) ==
    IF count > CALL_LIMIT + 1 THEN BudgetTriple
    ELSE IF out.raised THEN DefaultTriple
    ELSE ParseReply(out.lines)

decide_next_task(count, out) ==
    IF count > CALL_LIMIT THEN BudgetTriple
    ELSE IF out.raised THEN DefaultTriple
    ELSE ParseReply(out.lines)

(* ----------------------------- state ---------------------------------- *)
\* SharedState (models/state.py, State); user_request is set to user_input by
\* create_initial_state and no node assigns either
VARIABLES messages, user_input, ai_response, task_history, current_task,
          supervisor_call_count, health_data, schedule_data, worklife_data,
          system_status, error_messages

\* the LLM outcome handed to decide_next_task in SpecDecide, the triple the
\* last decide_next_task returned, and the LLM calls made by it so far
VARIABLES llm_out, decision, llm_calls

\* the last node call, its outcome and the environment it ran in, and the
\* number of supervisor_node calls
VARIABLES last, sup_runs

\* the workflow engine: the node to run next and the nodes run so far
VARIABLES pc, visited

\* the engine's strategy and execution mode, and the keys of the chunks
\* its streaming mode has yielded
VARIABLES engine, yielded

\* a state, a delta, and the state after the delta was merged into it
VARIABLES previous, delta, merged

\* CommunicationAgent.conversation_history, and every entry appended for
\* each user since construction
VARIABLES conversation_history, appended

\* what the WorkLife analysis reads outside the state (the schedule
\* store's answer and today's hours), and the score it returned with the
\* state's health_data and with none
VARIABLES schedule_env, analysis

\* the streaming transports of api.py: the request being served (its
\* transport and the session id it carries), the events sent to the client
\* so far, and the handler's local final_ai_response (the narratives joined
\* by blank lines, kept as the sequence of its parts)
VARIABLES request, sent, final_ai_response

\* two requests served by one event loop: the context of the request whose
\* coroutine is suspended, the final state the first request reached when
\* it was served alone, and the outcomes of the first request's external
\* calls
VARIABLES parked, solo, script

state == <<messages, user_input, ai_response, task_history, current_task,
           supervisor_call_count, health_data, schedule_data, worklife_data,
           system_status, error_messages>>

vars == <<messages, user_input, ai_response, task_history, current_task,
          supervisor_call_count, health_data, schedule_data, worklife_data,
          system_status, error_messages, llm_out, decision, llm_calls,
          last, sup_runs, pc, visited, engine, yielded, previous, delta,
          merged, conversation_history, appended, schedule_env, analysis,
          request, sent, final_ai_response, parked, solo, script>>

\* the variables of the engine's modes and of the operations studied on
\* their own
engine_vars == <<engine, yielded>>
merge_vars == <<previous, delta, merged>>
cache_vars == <<conversation_history, appended>>
worklife_vars == <<schedule_env, analysis>>
transport_vars == <<request, sent, final_ai_response>>
session_vars == <<parked, solo, script>>

\* user_input by the keywords it contains
UserInputs == {{}, {"schedule"}, {"schedule", "stress"}}

RECURSIVE SeqsUpTo(_, _)
SeqsUpTo(S, n) ==
    IF n = 0 THEN {<<>>}
    ELSE LET shorter == SeqsUpTo(S, n - 1)
         IN shorter \cup {Append(s, x) : s \in {t \in shorter : Len(t) = n - 1},
                                         x \in S}

LLMOutcomes == {Raised} \cup {Reply(ls) : ls \in SeqsUpTo(Lines, MaxLines)}

\* State(messages=[], ai_response="", task_history=[], current_task=None,
\*       supervisor_call_count=0, ..., system_status="initialized", ...)
create_initial_state ==
    /\ messages = <<>>
    /\ user_input \in UserInputs
    /\ ai_response = NoResponse
    /\ task_history = <<>>
    /\ current_task = NoTask
    /\ supervisor_call_count = 0
    /\ health_data = NoHealth
    /\ schedule_data = NoSchedule
    /\ worklife_data = NoWorkLife
    /\ system_status = "initialized"
    /\ error_messages = <<>>

(* ---------------------------- the nodes ------------------------------- *)
\* Task(...) validates agent against the Literal; the other fields are an
\* int and two strings whatever the reply was
TaskValid(d) == d.agent \in TaskAgents

NodeError(node) == node \o " node error"

\* supervisor_node(state), the LLM's outcome being `out`
supervisor_node(out) ==
    LET d == decide_next_task(supervisor_call_count, out)
    IN /\ decision' = d
       /\ llm_calls' = IF LLMConsulted(supervisor_call_count)
                       THEN llm_calls + 1 ELSE llm_calls
       /\ sup_runs' = sup_runs + 1
       /\ IF TaskValid(d)
          THEN /\ task_history' = Append(task_history,
                                     Task(d.agent, d.description, d.priority))
               /\ messages' = Append(messages,
                      [role |-> "assistant", agent |-> SUPERVISOR,
                       content |-> d.agent])
               /\ current_task' = Len(task_history) + 1
               /\ supervisor_call_count' = supervisor_call_count + 1
               /\ system_status' = "task_assigned"
               /\ last' = [node |-> SUPERVISOR, outcome |-> "ok", env |-> NoFailure]
               /\ UNCHANGED <<user_input, ai_response, health_data,
                              schedule_data, worklife_data, error_messages>>
          ELSE \* pydantic ValidationError, caught by the node's except
               /\ error_messages' = Append(error_messages,
                                           NodeError("Supervisor"))
               /\ system_status' = "error"
               /\ last' = [node |-> SUPERVISOR, outcome |-> "error",
                         env |-> NoFailure]
               /\ UNCHANGED <<messages, user_input, ai_response, task_history,
                              current_task, supervisor_call_count, health_data,
                              schedule_data, worklife_data>>

\* supervisor_router(state), on the state's current_task and task objects
\* Plan as the default when there is no current task
supervisor_router_default_plan(task, history) ==
    IF task = NoTask THEN PLAN ELSE history[task].agent

supervisor_router(task, history) ==
    IF task = NoTask THEN COMM ELSE history[task].agent

\* The environment of one handler call: whether the LLM and the schedule
\* store answer, and whether an exception escapes inside the handler's try
\* block: "analysis" before the handler touches messages (in the analysis
\* call or the record construction), "late" after it has marked the task
\* done (in the recommendation call or the response assembly).
Envs ==
    {[llm |-> "ok", store |-> "ok", fault |-> "none"],
     [llm |-> "fail", store |-> "ok", fault |-> "none"],
     [llm |-> "ok", store |-> "fail", fault |-> "none"],
     [llm |-> "ok", store |-> "ok", fault |-> "analysis"],
     [llm |-> "ok", store |-> "ok", fault |-> "late"]}

\* the WorkLife handler reporting the Data handler's tag
CompletedTag_copied(h) ==
    CASE h = HEALTH -> "health_analysis_completed"
      [] h = PLAN -> "schedule_plan_completed"
      [] h = DATA -> "data_analysis_completed"
      [] h = WORKLIFE -> "data_analysis_completed"
      [] h = COMM -> "communication_completed"

CompletedTag(h) ==
    CASE h = HEALTH -> "health_analysis_completed"
      [] h = PLAN -> "schedule_plan_completed"
      [] h = DATA -> "data_analysis_completed"
      [] h = WORKLIFE -> "worklife_analysis_completed"
      [] h = COMM -> "communication_completed"

\* the Data handler's entry written with the Plan handler's name
NodeName_copied(h) ==
    CASE h = HEALTH -> "Health"
      [] h = PLAN -> "Plan"
      [] h = DATA -> "Plan"
      [] h = WORKLIFE -> "WorkLife"
      [] h = COMM -> "Communication"

NodeName(h) ==
    CASE h = HEALTH -> "Health"
      [] h = PLAN -> "Plan"
      [] h = DATA -> "Data"
      [] h = WORKLIFE -> "WorkLife"
      [] h = COMM -> "Communication"

\* analyze_user_intent: the intents are tried in dict order, and every
\* intent with a keyword in the input overwrites the one detected before
analyze_user_intent(input) ==
    IF "stress" \in input THEN "health_concern"
    ELSE IF "schedule" \in input THEN "schedule_management"
    ELSE "general_inquiry"

\* the LLM's failure answered with an empty text
generate_response_no_fallback(input, env) ==
    IF analyze_user_intent(input) \in {"schedule_management", "general_inquiry"}
    THEN [agent |-> COMM, kind |-> IF env.llm = "ok" THEN "llm" ELSE ""]
    ELSE [agent |-> COMM, kind |-> "canned"]

\* generate_response: the LLM-backed intents fall back inside their own
\* try/except, the other intents answer with a fixed sentence
generate_response(input, env) ==
    IF analyze_user_intent(input) \in {"schedule_management", "general_inquiry"}
    THEN [agent |-> COMM, kind |-> IF env.llm = "ok" THEN "llm" ELSE "fallback"]
    ELSE [agent |-> COMM, kind |-> "canned"]

\* the narrative a handler other than Communication puts in ai_response:
\* a fixed summary followed by the recommendation, whose generator catches
\* the LLM's failure and returns the keyword-driven text
Narrative(h, env) ==
    [agent |-> h, kind |-> IF env.llm = "ok" THEN "llm" ELSE "fallback"]

\* analyze_health_data: stress_level 6.2, or 7.5 when the request names
\* stress (tenths)
analyze_health_data(input) ==
    [present |-> TRUE, stress_level |-> IF "stress" \in input THEN 75 ELSE 62]

\* 0.1 hour, the floor of personal_hours in the ratio, in minutes
MIN_PERSONAL == 6
\* the stress threshold 7, in tenths
STRESS_LIMIT == 70

\* the balance score of analyze_worklife_balance. Hours are counted in
\* minutes and the ratio tests are cross-multiplied (work / personal <= 1.2
\* is 10 * work <= 12 * personal), in exact arithmetic. `schedules` is what
\* the schedule store answered and the hours of today's work and personal
\* schedules; `health` is state["health_data"]
BalanceScore(schedules, health) ==
    IF schedules.store # "ok"
    THEN 50   \* early return, before health_data is read
    ELSE LET work == schedules.work
             personal == schedules.personal
             floor == IF personal > MIN_PERSONAL THEN personal
                      ELSE MIN_PERSONAL
             base == IF work + personal = 0 THEN 50
                     ELSE IF 10 * work <= 12 * floor THEN 85
                     ELSE IF 10 * work <= 15 * floor THEN 70
                     ELSE 50
         IN IF health.present /\ health.stress_level > STRESS_LIMIT
            THEN base - 10
            ELSE base

\* analyze_worklife_balance as the WorkLife handler calls it, the store
\* either failing or holding no schedule for today
analyze_worklife_balance(env) ==
    [present |-> TRUE,
     balance_score |->
         BalanceScore([store |-> env.store, work |-> 0, personal |-> 0],
                      health_data)]

\* the exceptions that leave the analysis call: create_schedule_plan calls
\* llm.invoke outside any try
RaisesInAnalysis(h, env) ==
    \/ env.fault = "analysis"
    \/ h = PLAN /\ env.llm = "fail"

\* every handler recording the user's entry before its own
HandlerMessages_user_entry_everywhere(h, env) ==
    <<[role |-> "user", agent |-> "", content |-> "user_input"],
      [role |-> "assistant", agent |-> h, content |-> "summary"]>>

\* the messages a handler appends
HandlerMessages(h, env) ==
    IF h = COMM
    THEN <<[role |-> "user", agent |-> "", content |-> "user_input"],
           [role |-> "assistant", agent |-> COMM,
            content |-> generate_response(user_input, env).kind]>>
    ELSE <<[role |-> "assistant", agent |-> h, content |-> "summary"]>>

\* the first entry marked instead of the last
MarkLastDone_first(history) ==
    IF history = <<>> THEN history
    ELSE [history EXCEPT ![1].done = TRUE, ![1].done_at = "now"]

\* the last entry's done flag flipped instead of set
MarkLastDone_toggle(history) ==
    IF history = <<>> THEN history
    ELSE [history EXCEPT ![Len(history)].done = ~@,
                         ![Len(history)].done_at = "now"]

\* the finished task taken off the history
MarkLastDone_pop(history) ==
    IF history = <<>> THEN history
    ELSE SubSeq(history, 1, Len(history) - 1)

\* if task_history: task_history[-1].done = True; task_history[-1].done_at = now
MarkLastDone(history) ==
    IF history = <<>> THEN history
    ELSE [history EXCEPT ![Len(history)].done = TRUE,
                         ![Len(history)].done_at = "now"]

\* the guard without the comparison of the task's agent
GuardPasses_any_task(h) == current_task # NoTask

\* the guard every handler starts with
GuardPasses(h) ==
    /\ current_task # NoTask
    /\ task_history[current_task].agent = h

\* health_node, plan_node, data_node, worklife_node, communication_node
handler_node(h, env) ==
    IF ~GuardPasses(h)
    THEN /\ last' = [node |-> h, outcome |-> "noop", env |-> env]
         /\ UNCHANGED state
    ELSE IF RaisesInAnalysis(h, env)
    THEN /\ error_messages' = Append(error_messages, NodeError(NodeName(h)))
         /\ system_status' = "error"
         /\ last' = [node |-> h, outcome |-> "error", env |-> env]
         /\ UNCHANGED <<messages, user_input, ai_response, task_history,
                        current_task, supervisor_call_count, health_data,
                        schedule_data, worklife_data>>
    ELSE IF env.fault = "late"
    THEN \* the lists were changed in place before the exception
         /\ messages' = messages \o HandlerMessages(h, env)
         /\ task_history' = MarkLastDone(task_history)
         /\ error_messages' = Append(error_messages, NodeError(NodeName(h)))
         /\ system_status' = "error"
         /\ last' = [node |-> h, outcome |-> "error", env |-> env]
         /\ UNCHANGED <<user_input, ai_response, current_task,
                        supervisor_call_count, health_data, schedule_data,
                        worklife_data>>
    ELSE /\ messages' = messages \o HandlerMessages(h, env)
         /\ task_history' = MarkLastDone(task_history)
         /\ ai_response' = IF h = COMM THEN generate_response(user_input, env)
                           ELSE Narrative(h, env)
         /\ system_status' = CompletedTag(h)
         /\ health_data' = IF h = HEALTH THEN analyze_health_data(user_input)
                           ELSE health_data
         /\ schedule_data' = IF h = PLAN THEN [present |-> TRUE]
                             ELSE schedule_data
         /\ worklife_data' = IF h = WORKLIFE THEN analyze_worklife_balance(env)
                             ELSE worklife_data
         /\ last' = [node |-> h, outcome |-> "ok", env |-> env]
         /\ UNCHANGED <<user_input, current_task, supervisor_call_count,
                        error_messages>>

(* ------------- Spec: the nodes applied to one SharedState ------------- *)
\* the outcomes of the Supervisor's LLM call tried here: an exception (the
\* default triple, which names Communication), a reply naming each other
\* agent of the Task model and a reply naming no agent of the Task model
NodeOutcomes ==
    {Raised}
    \cup {Reply(<<[colon |-> TRUE, key |-> "agent", value |-> a]>>) :
              a \in (TaskAgents \ {COMM}) \cup {"Plan Agent"}}

\* the engine of main.py: the compiled graph, consumed through astream
DefaultEngine == [kind |-> "graph", mode |-> "astream"]

NoDelta == [k \in {} |-> ""]
NoHistory == [u \in {} |-> <<>>]
NoSchedules == [store |-> "ok", work |-> 0, personal |-> 0]
NoAnalysis == [done |-> FALSE, score |-> 0, baseline |-> 0]

\* nothing merged, nothing cached, nothing analysed on its own
NoRequest == [transport |-> "", session_id |-> ""]
NoContext == [present |-> FALSE]
NoScript == [out |-> Raised, env |-> NoFailure]

\* no request is being served by a streaming transport
TransportIdle ==
    /\ request = NoRequest
    /\ sent = <<>>
    /\ final_ai_response = <<>>
    /\ parked = NoContext
    /\ solo = NoContext
    /\ script = NoScript

OperationsIdle ==
    /\ previous = NoDelta
    /\ delta = NoDelta
    /\ merged = NoDelta
    /\ conversation_history = NoHistory
    /\ appended = NoHistory
    /\ schedule_env = NoSchedules
    /\ analysis = NoAnalysis

Init ==
    /\ create_initial_state
    /\ llm_out = Raised
    /\ decision = NoDecision
    /\ llm_calls = 0
    /\ last = NoCall
    /\ sup_runs = 0
    /\ pc = "nodes"
    /\ visited = <<>>
    /\ engine = DefaultEngine
    /\ yielded = <<>>
    /\ TransportIdle
    /\ OperationsIdle

\* a step is taken only while the tasks created and the errors recorded
\* stay within MaxEvents, and the message log within MaxMessages
WithinBounds ==
    /\ Len(task_history') + Len(error_messages') <= MaxEvents
    /\ Len(messages') <= MaxMessages

SupervisorStep ==
    /\ pc = "nodes"
    /\ \E out \in NodeOutcomes : supervisor_node(out)
    /\ WithinBounds
    /\ UNCHANGED <<llm_out, pc, visited, engine_vars, merge_vars, cache_vars,
                   worklife_vars,
                   transport_vars, session_vars>>

HandlerStep ==
    /\ pc = "nodes"
    /\ \E h \in Handlers :
          \E env \in (IF GuardPasses(h) THEN Envs ELSE {NoFailure}) :
              handler_node(h, env)
    /\ WithinBounds
    /\ UNCHANGED <<llm_out, decision, llm_calls, sup_runs, pc, visited,
                   engine_vars, merge_vars, cache_vars, worklife_vars,
                   transport_vars, session_vars>>

Next == SupervisorStep \/ HandlerStep

Spec == Init /\ [][Next]_vars

(* ------------- SpecGraph: one run of the compiled graph --------------- *)
\* add_edge(START, "supervisor")
InitGraph ==
    /\ create_initial_state
    /\ llm_out = Raised
    /\ decision = NoDecision
    /\ llm_calls = 0
    /\ last = NoCall
    /\ sup_runs = 0
    /\ pc = SUPERVISOR
    /\ visited = <<>>
    /\ engine = DefaultEngine
    /\ yielded = <<>>
    /\ TransportIdle
    /\ OperationsIdle

\* the path map of add_conditional_edges: the five handlers, each to itself
PathMap == Handlers

\* every handler handing control back to the Supervisor
StaticEdge_back_to_supervisor(h) == SUPERVISOR

\* add_edge(handler, next)
StaticEdge(h) ==
    CASE h = HEALTH -> PLAN
      [] h = PLAN -> WORKLIFE
      [] h = DATA -> WORKLIFE
      [] h = WORKLIFE -> COMM
      [] h = COMM -> "END"

\* what a streaming run hands its caller after a node: one chunk keyed by
\* the node's name (graph.py:139-140, 316-338); invoke yields nothing
Yield(key) ==
    IF engine.mode = "astream" THEN Append(yielded, key) ELSE yielded

\* the supervisor node followed by its conditional edge; a router result
\* outside the path map is a KeyError in the graph library, which
\* PlandyAIGraph.astream catches. PlandyAIGraph.invoke awaits the compiled
\* graph's synchronous invoke (graph.py:114): the synchronous run executes
\* supervisor_node, cannot execute the handlers, which are coroutine
\* functions, and the failure is caught by invoke's except
GraphSupervisor ==
    /\ engine.kind = "graph"
    /\ pc = SUPERVISOR
    /\ \E out \in NodeOutcomes : supervisor_node(out)
    /\ visited' = Append(visited, SUPERVISOR)
    /\ yielded' = Yield(SUPERVISOR)
    /\ pc' = IF /\ engine.mode = "astream"
                /\ supervisor_router(current_task', task_history') \in PathMap
             THEN supervisor_router(current_task', task_history')
             ELSE "engine_error"
    /\ UNCHANGED <<llm_out, engine, merge_vars, cache_vars, worklife_vars,
                   transport_vars, session_vars>>

GraphHandler ==
    /\ engine.kind = "graph"
    /\ pc \in Handlers
    /\ \E env \in (IF GuardPasses(pc) THEN Envs ELSE {NoFailure}) :
           handler_node(pc, env)
    /\ visited' = Append(visited, pc)
    /\ yielded' = Yield(pc)
    /\ pc' = StaticEdge(pc)
    /\ UNCHANGED <<llm_out, decision, llm_calls, sup_runs, engine,
                   merge_vars, cache_vars, worklife_vars,
                   transport_vars, session_vars>>

\* the except clauses of PlandyAIGraph.invoke and PlandyAIGraph.astream:
\* the caller is handed the state it passed in (whose list objects the
\* nodes changed in place) with error_messages replaced by a one-entry
\* list and system_status "error"; astream yields it under the key "error"
GraphEngineError ==
    /\ engine.kind = "graph"
    /\ pc = "engine_error"
    /\ error_messages' = <<"Graph execution error">>
    /\ system_status' = "error"
    /\ current_task' = NoTask
    /\ supervisor_call_count' = 0
    /\ last' = [node |-> "engine", outcome |-> "error", env |-> NoFailure]
    /\ yielded' = Yield("error")
    /\ pc' = "END"
    /\ UNCHANGED <<messages, user_input, ai_response, task_history,
                   health_data, schedule_data, worklife_data, llm_out,
                   decision, llm_calls, sup_runs, visited, engine,
                   merge_vars, cache_vars, worklife_vars,
                   transport_vars, session_vars>>

NextGraph == GraphSupervisor \/ GraphHandler \/ GraphEngineError

SpecGraph == InitGraph /\ [][NextGraph]_vars

\* the engine awaits every node it schedules
FairGraph == SpecGraph /\ WF_vars(NextGraph)

(* ------- SpecEngine: one run of either engine in either mode ---------- *)
\* PlandyAIGraph._build_graph picks the compiled graph when the graph
\* library can be imported and MockGraph when it cannot; the caller picks
\* invoke or astream
EngineKinds == {"graph", "mock"}
EngineModes == {"invoke", "astream"}

InitEngine ==
    /\ create_initial_state
    /\ llm_out = Raised
    /\ decision = NoDecision
    /\ llm_calls = 0
    /\ last = NoCall
    /\ sup_runs = 0
    /\ pc = SUPERVISOR
    /\ visited = <<>>
    /\ engine \in [kind : EngineKinds, mode : EngineModes]
    /\ yielded = <<>>
    /\ TransportIdle
    /\ OperationsIdle

\* MockGraph.invoke / MockGraph.astream: supervisor_node, then the one
\* handler current_task names, if any; no static chain follows. No node
\* raises past its own except, so the mock's except clauses are not entered
MockSupervisor ==
    /\ engine.kind = "mock"
    /\ pc = SUPERVISOR
    /\ \E out \in NodeOutcomes : supervisor_node(out)
    /\ visited' = Append(visited, SUPERVISOR)
    /\ yielded' = Yield(SUPERVISOR)
    /\ pc' = IF /\ current_task' # NoTask
                /\ task_history'[current_task'].agent \in Handlers
             THEN task_history'[current_task'].agent
             ELSE "END"
    /\ UNCHANGED <<llm_out, engine, merge_vars, cache_vars, worklife_vars,
                   transport_vars, session_vars>>

MockHandler ==
    /\ engine.kind = "mock"
    /\ pc \in Handlers
    /\ \E env \in Envs : handler_node(pc, env)
    /\ visited' = Append(visited, pc)
    /\ yielded' = Yield(pc)
    /\ pc' = "END"
    /\ UNCHANGED <<llm_out, decision, llm_calls, sup_runs, engine,
                   merge_vars, cache_vars, worklife_vars,
                   transport_vars, session_vars>>

NextEngine ==
    \/ GraphSupervisor
    \/ GraphHandler
    \/ GraphEngineError
    \/ MockSupervisor
    \/ MockHandler

SpecEngine == InitEngine /\ [][NextEngine]_vars

(* --------------- SpecDecide: decide_next_task on its inputs ----------- *)
InitDecide ==
    /\ messages = <<>>
    /\ user_input \in UserInputs
    /\ ai_response = NoResponse
    /\ task_history = <<>>
    /\ current_task = NoTask
    /\ supervisor_call_count \in 0..MaxCount
    /\ health_data \in {NoHealth, [present |-> TRUE, stress_level |-> 75]}
    /\ schedule_data = NoSchedule
    /\ worklife_data = NoWorkLife
    /\ system_status = "initialized"
    /\ error_messages = <<>>
    /\ llm_out \in LLMOutcomes
    /\ decision = NoDecision
    /\ llm_calls = 0
    /\ last = NoCall
    /\ sup_runs = 0
    /\ pc = "decide"
    /\ visited = <<>>
    /\ engine = DefaultEngine
    /\ yielded = <<>>
    /\ TransportIdle
    /\ OperationsIdle

Decide ==
    /\ decision = NoDecision
    /\ decision' = decide_next_task(supervisor_call_count, llm_out)
    /\ llm_calls' = IF LLMConsulted(supervisor_call_count)
                    THEN llm_calls + 1 ELSE llm_calls
    /\ UNCHANGED <<state, llm_out, last, sup_runs, pc, visited, engine_vars,
                   merge_vars, cache_vars, worklife_vars,
                   transport_vars, session_vars>>

NextDecide == Decide

SpecDecide == InitDecide /\ [][NextDecide]_vars

(* ------------- SpecMerge: a delta merged into a state ----------------- *)
\* the keys and values of the states and deltas merged: two keys every
\* node returns and one (ai_recommendation) that only handlers add
MergeKeys == {"system_status", "ai_response", "ai_recommendation"}
MergeValues == {"initialized", "task_assigned"}
Dicts == UNION {[ks -> MergeValues] : ks \in SUBSET MergeKeys}

\* a delta with the keys of the previous state it does not carry taken from
\* the previous state, which won over the delta
update_previous_wins(s, d) ==
    [k \in DOMAIN s \cup DOMAIN d |-> IF k \in DOMAIN s THEN s[k] ELSE d[k]]

\* current_state.update(result) in api.py and {**state, key: value, ...} in
\* every node's return
update(s, d) ==
    [k \in DOMAIN s \cup DOMAIN d |-> IF k \in DOMAIN d THEN d[k] ELSE s[k]]

\* no run, no engine at work
NothingRun ==
    /\ create_initial_state
    /\ user_input = {}
    /\ llm_out = Raised
    /\ decision = NoDecision
    /\ llm_calls = 0
    /\ last = NoCall
    /\ sup_runs = 0
    /\ visited = <<>>
    /\ engine = DefaultEngine
    /\ yielded = <<>>
    /\ TransportIdle

InitMerge ==
    /\ NothingRun
    /\ pc = "merge"
    /\ previous \in Dicts
    /\ delta \in Dicts
    /\ merged = NoDelta
    /\ conversation_history = NoHistory
    /\ appended = NoHistory
    /\ schedule_env = NoSchedules
    /\ analysis = NoAnalysis

MergeStep ==
    /\ pc = "merge"
    /\ merged' = update(previous, delta)
    /\ pc' = "merged"
    /\ UNCHANGED <<state, llm_out, decision, llm_calls, last, sup_runs,
                   visited, engine_vars, previous, delta, cache_vars,
                   worklife_vars,
                   transport_vars, session_vars>>

NextMerge == MergeStep

SpecMerge == InitMerge /\ [][NextMerge]_vars

(* ------ SpecCache: the Communication agent's conversation cache -------- *)
HISTORY_LIMIT == 50
MaxAppends == 52
Users == {1, 2}

\* conversation_history.get(user, []) as a sequence
HistoryOf(history, user) ==
    IF user \in DOMAIN history THEN history[user] ELSE <<>>

\* the first HISTORY_LIMIT entries kept instead of the last
update_conversation_history_keep_oldest(history, user, entry) ==
    LET grown == Append(HistoryOf(history, user), entry)
        kept == IF Len(grown) > HISTORY_LIMIT
                THEN SubSeq(grown, 1, HISTORY_LIMIT)
                ELSE grown
    IN [u \in DOMAIN history \cup {user} |->
            IF u = user THEN kept ELSE history[u]]

\* CommunicationAgent._update_conversation_history: create the user's list
\* if absent, append, then keep the slice [-50:] when longer than 50
update_conversation_history(history, user, entry) ==
    LET grown == Append(HistoryOf(history, user), entry)
        kept == IF Len(grown) > HISTORY_LIMIT
                THEN SubSeq(grown, Len(grown) - HISTORY_LIMIT + 1, Len(grown))
                ELSE grown
    IN [u \in DOMAIN history \cup {user} |->
            IF u = user THEN kept ELSE history[u]]

InitCache ==
    /\ NothingRun
    /\ pc = "cache"
    /\ previous = NoDelta
    /\ delta = NoDelta
    /\ merged = NoDelta
    /\ conversation_history = NoHistory
    /\ appended = NoHistory
    /\ schedule_env = NoSchedules
    /\ analysis = NoAnalysis

\* one call for one user; the entry is the user's n-th message, sent by the
\* user or by the assistant in turn (communication_agent.py:127, 139)
CacheAppend ==
    /\ pc = "cache"
    /\ \E user \in Users :
          LET n == Len(HistoryOf(appended, user)) + 1
              entry == [message |-> n,
                        sender |-> IF n % 2 = 1 THEN "user" ELSE "assistant"]
          IN /\ n <= MaxAppends
             /\ conversation_history' =
                    update_conversation_history(conversation_history, user,
                                                entry)
             /\ appended' =
                    [u \in DOMAIN appended \cup {user} |->
                        IF u = user THEN Append(HistoryOf(appended, user), entry)
                        ELSE appended[u]]
    /\ UNCHANGED <<state, llm_out, decision, llm_calls, last, sup_runs, pc,
                   visited, engine_vars, merge_vars, worklife_vars,
                   transport_vars, session_vars>>

NextCache == CacheAppend

SpecCache == InitCache /\ [][NextCache]_vars

(* --------- SpecScore: the WorkLife analysis on its inputs ------------- *)
\* today's work and personal time, in minutes
Minutes == {0, 3, 6, 60, 72, 75, 90, 100, 400, 480}
StoreAnswers == {"ok", "fail"}

\* health_data is absent or what analyze_health_data produced
InitScore ==
    /\ messages = <<>>
    /\ user_input = {}
    /\ ai_response = NoResponse
    /\ task_history = <<>>
    /\ current_task = NoTask
    /\ supervisor_call_count = 0
    /\ health_data \in {NoHealth} \cup {analyze_health_data(i) : i \in UserInputs}
    /\ schedule_data = NoSchedule
    /\ worklife_data = NoWorkLife
    /\ system_status = "initialized"
    /\ error_messages = <<>>
    /\ llm_out = Raised
    /\ decision = NoDecision
    /\ llm_calls = 0
    /\ last = NoCall
    /\ sup_runs = 0
    /\ pc = "analyse"
    /\ visited = <<>>
    /\ engine = DefaultEngine
    /\ yielded = <<>>
    /\ TransportIdle
    /\ previous = NoDelta
    /\ delta = NoDelta
    /\ merged = NoDelta
    /\ conversation_history = NoHistory
    /\ appended = NoHistory
    /\ schedule_env \in [store : StoreAnswers, work : Minutes, personal : Minutes]
    /\ analysis = NoAnalysis

\* the analysis run on the state, and on the same state without health_data
Analyse ==
    /\ pc = "analyse"
    /\ analysis' = [done |-> TRUE,
                    score |-> BalanceScore(schedule_env, health_data),
                    baseline |-> BalanceScore(schedule_env, NoHealth)]
    /\ pc' = "analysed"
    /\ UNCHANGED <<state, llm_out, decision, llm_calls, last, sup_runs,
                   visited, engine_vars, merge_vars, cache_vars, schedule_env,
                   transport_vars, session_vars>>

NextScore == Analyse

SpecScore == InitScore /\ [][NextScore]_vars

(* ============================ the claims ============================== *)

(* ---- C1 ---- *)
\* C1: whenever supervisor_call_count is greater than 3 when the Supervisor
\* decides, the decided task is communication_agent with the fixed
\* budget-exceeded description and priority 1, whatever the LLM would have
\* replied and whatever the rest of the state holds, and the LLM is not
\* consulted.
C1_BudgetForcesCommunication ==
    (decision # NoDecision /\ supervisor_call_count > 3) =>
        /\ decision = [agent |-> "communication_agent",
                       description |-> BUDGET_DESCRIPTION,
                       priority |-> 1]
        /\ llm_calls = 0

\* the decision was taken at count 4 while the LLM's reply named plan_agent
\* with its own description and priority
C1_Witness ==
    /\ decision # NoDecision
    /\ supervisor_call_count = 4
    /\ ~llm_out.raised
    /\ ParseReply(llm_out.lines).agent = PLAN
    /\ ParseReply(llm_out.lines).priority = 7

(* ---- C2 ---- *)
\* C2: for every outcome of the Supervisor's LLM call, the state
\* supervisor_node returns has a current_task that is the Task just created
\* from the decision (not done, empty done_at).
C2_SupervisorAlwaysProducesTask ==
    last.node = SUPERVISOR =>
        /\ current_task # NoTask
        /\ task_history[current_task] =
               [agent |-> decision.agent, done |-> FALSE,
                description |-> decision.description, done_at |-> "",
                priority |-> decision.priority]

(* ---- C3 ---- *)
\* C3: supervisor_call_count equals the number of times the Supervisor node
\* has executed (the initial value is 0).
C3_CountEqualsExecutions == supervisor_call_count = sup_runs

(* ---- C4 ---- *)
\* C4: a handler called while current_task is absent or names another agent
\* returns the state with every field unchanged.
C4_GuardFailureIsNoOp ==
    [][\A h \in Handlers :
          (/\ last'.node = h
           /\ \/ current_task = NoTask
              \/ task_history[current_task].agent # h)
          => UNCHANGED state]_vars

\* a handler was called on a state whose current task names another agent,
\* and one was called with no current task
C4_Witness ==
    /\ last.node \in Handlers
    /\ last.outcome = "noop"
    /\ current_task # NoTask
    /\ task_history[current_task].agent # last.node
    /\ task_history[current_task].agent \in Handlers

(* ---- C5 ---- *)
\* C5: a run of the graph-backed engine that has reached END visited the
\* Supervisor, the handler the router returned and the static chain from
\* it: one of S-Health-Plan-WorkLife-Comm, S-Plan-WorkLife-Comm,
\* S-Data-WorkLife-Comm, S-WorkLife-Comm and S-Comm.
C5_OnlyFiveNodeSequences ==
    pc = "END" =>
        visited \in
            {<<"supervisor", "health_agent", "plan_agent",
               "worklife_balance_agent", "communication_agent">>,
             <<"supervisor", "plan_agent", "worklife_balance_agent",
               "communication_agent">>,
             <<"supervisor", "data_agent", "worklife_balance_agent",
               "communication_agent">>,
             <<"supervisor", "worklife_balance_agent", "communication_agent">>,
             <<"supervisor", "communication_agent">>}

(* ---- C6 ---- *)
\* C6: whenever current_task is set it is the last entry of task_history,
\* and a step that turns a task's done flag on is a call of the handler the
\* task names.
C6_CurrentTaskIsTail ==
    /\ [](current_task # NoTask => current_task = Len(task_history))
    /\ [][\A i \in 1..Len(task_history) :
             (~task_history[i].done /\ task_history'[i].done)
             => task_history[i].agent = last'.node]_vars

\* two tasks naming different agents, the second closed by its own handler
\* and the first still open
C6_Witness ==
    /\ Len(task_history) = 2
    /\ current_task = 2
    /\ task_history[1].agent # task_history[2].agent
    /\ ~task_history[1].done
    /\ task_history[2].done
    /\ last.node = task_history[2].agent
    /\ last.outcome = "ok"

(* ---- C7 ---- *)
\* C7: after a handler passed its guard and returned on its normal path,
\* the last entry of task_history is done with a non-empty done_at and
\* system_status is that handler's completed tag.
C7_CompletionMarksTail ==
    (last.node \in Handlers /\ last.outcome = "ok") =>
        /\ task_history # <<>>
        /\ task_history[Len(task_history)].done
        /\ task_history[Len(task_history)].done_at # ""
        /\ system_status =
               CASE last.node = "health_agent" -> "health_analysis_completed"
                 [] last.node = "plan_agent" -> "schedule_plan_completed"
                 [] last.node = "data_agent" -> "data_analysis_completed"
                 [] last.node = "worklife_balance_agent"
                        -> "worklife_analysis_completed"
                 [] last.node = "communication_agent"
                        -> "communication_completed"

\* the WorkLife handler completed the second task of the history
C7_Witness ==
    /\ last.node = WORKLIFE
    /\ last.outcome = "ok"
    /\ Len(task_history) = 2
    /\ system_status = "worklife_analysis_completed"

(* ---- C8 ---- *)
\* C8: a node call that fails inside the node returns a state whose
\* system_status is "error" and whose error_messages is the list it
\* received followed by one entry naming the node.
C8_NodeFailureIsRecorded ==
    [][(last'.outcome = "error" /\ last'.node \in Handlers \cup {SUPERVISOR})
       => /\ system_status' = "error"
          /\ error_messages' =
                 Append(error_messages,
                        CASE last'.node = "supervisor" -> "Supervisor node error"
                          [] last'.node = "health_agent" -> "Health node error"
                          [] last'.node = "plan_agent" -> "Plan node error"
                          [] last'.node = "data_agent" -> "Data node error"
                          [] last'.node = "worklife_balance_agent"
                                 -> "WorkLife node error"
                          [] last'.node = "communication_agent"
                                 -> "Communication node error")]_vars

\* the Data handler failed on a state that already held the Supervisor's
\* error entry
C8_Witness ==
    /\ last.node = DATA
    /\ last.outcome = "error"
    /\ error_messages = <<"Supervisor node error", "Data node error">>

(* ---- C9 ---- *)
\* C9: when a handler that passed its guard ended on its exception path,
\* the task it was dispatched for is not left with done = false.
C9_FailedHandlerClosesTask ==
    (last.node \in Handlers /\ last.outcome = "error") =>
        task_history[current_task].done

(* ---- C10 ---- *)
\* C10: a handler that passed its guard and had an external call fail (the
\* LLM or the schedule store) finishes on its normal path: ai_response is
\* that handler's non-empty narrative, system_status is its completed tag,
\* and error_messages gains no entry.
C10_ExternalFailureFallsBack ==
    [][(/\ last'.node \in Handlers
        /\ last'.outcome # "noop"
        /\ last'.env.fault = "none"
        /\ (last'.env.llm = "fail" \/ last'.env.store = "fail"))
       => /\ ai_response'.agent = last'.node
          /\ ai_response'.kind # ""
          /\ system_status' \in {"health_analysis_completed",
                                 "schedule_plan_completed",
                                 "data_analysis_completed",
                                 "worklife_analysis_completed",
                                 "communication_completed"}
          /\ error_messages' = error_messages]_vars

(* ---- C11 ---- *)
\* C11: when the engine itself catches an exception, the state it returns
\* or yields has system_status "error" and error_messages equal to the
\* entries recorded so far followed by the exception message.
C11_EngineErrorKeepsEntries ==
    [][pc = "engine_error"
       => /\ system_status' = "error"
          /\ error_messages' =
                 Append(error_messages, "Graph execution error")]_vars

(* ---- C12 ---- *)
\* C12: a finished streaming run has yielded one chunk per executed node,
\* in the order the nodes were visited, followed by one final terminal
\* marker that is not a node's chunk.
C12_StreamEndsWithMarker ==
    (engine.mode = "astream" /\ pc = "END") =>
        /\ Len(yielded) = Len(visited) + 1
        /\ SubSeq(yielded, 1, Len(visited)) = visited
        /\ yielded[Len(yielded)] \notin
               {"supervisor", "health_agent", "plan_agent", "data_agent",
                "worklife_balance_agent", "communication_agent"}

(* ---- C13 ---- *)
\* C13: merging a delta into a state is a shallow key overwrite: the result
\* has every key of the previous state, a key of the delta has the delta's
\* value, every other key keeps its previous value, and merging the empty
\* delta returns the state unchanged.
C13_MergeIsShallowOverwrite ==
    pc = "merged" =>
        /\ DOMAIN previous \subseteq DOMAIN merged
        /\ \A k \in DOMAIN delta : merged[k] = delta[k]
        /\ \A k \in DOMAIN previous \ DOMAIN delta : merged[k] = previous[k]
        /\ (DOMAIN delta = {} => merged = previous)

\* the delta overwrote system_status with another value, left ai_response
\* alone and brought a key the previous state did not have
C13_Witness ==
    /\ pc = "merged"
    /\ DOMAIN previous = {"system_status", "ai_response"}
    /\ DOMAIN delta = {"system_status", "ai_recommendation"}
    /\ previous["system_status"] # delta["system_status"]
    /\ merged["system_status"] = delta["system_status"]
    /\ merged["ai_response"] = previous["ai_response"]

(* ---- C14 ---- *)
\* C14: over any sequence of node executions, a task_history entry whose
\* done flag is true is still there with done = true in every later state.
C14_DoneIsStable ==
    [][\A i \in 1..Len(task_history) :
          task_history[i].done
          => /\ i <= Len(task_history')
             /\ task_history'[i].done]_vars

\* a handler ran a second time on the task it had already finished
C14_Witness ==
    /\ Len(task_history) = 1
    /\ current_task = 1
    /\ task_history[1].agent = "health_agent"
    /\ task_history[1].done
    /\ last.node = "health_agent"
    /\ last.outcome = "ok"
    /\ Len(messages) = 3

(* ---- C15 ---- *)
\* C15: at every node step messages before the step is a prefix of
\* messages after it, and task_history before the step is a prefix of
\* task_history after it up to the done and done_at fields of its entries.
C15_LogsOnlyGrow ==
    [][/\ Len(messages') >= Len(messages)
       /\ SubSeq(messages', 1, Len(messages)) = messages
       /\ Len(task_history') >= Len(task_history)
       /\ \A i \in 1..Len(task_history) :
             /\ task_history'[i].agent = task_history[i].agent
             /\ task_history'[i].description = task_history[i].description
             /\ task_history'[i].priority = task_history[i].priority]_vars

\* both logs hold entries of two node calls, and an entry of task_history
\* had its done flag changed after it was appended
C15_Witness ==
    /\ Len(messages) >= 2
    /\ Len(task_history) = 2
    /\ task_history[1].done
    /\ ~task_history[2].done

(* ---- C16 ---- *)
\* C16: the router returns current_task.agent when a current task exists
\* and communication_agent when none exists.
C16_RouterFollowsCurrentTask ==
    /\ current_task = NoTask
       => supervisor_router(current_task, task_history) = "communication_agent"
    /\ current_task # NoTask
       => supervisor_router(current_task, task_history)
              = task_history[current_task].agent

\* a current task for the Data handler in a state whose other fields are
\* not the initial ones
C16_Witness ==
    /\ current_task # NoTask
    /\ task_history[current_task].agent = "data_agent"
    /\ supervisor_router(current_task, task_history) = "data_agent"
    /\ error_messages # <<>>
    /\ system_status = "task_assigned"

(* ---- C17 ---- *)
\* C17: after any sequence of appends each user's cached history has at
\* most 50 entries and is the most recent min(n, 50) of the n entries
\* appended for that user, in order; an append for one user leaves every
\* other user's history unchanged.
C17_CacheKeepsLastFifty ==
    /\ [](/\ DOMAIN conversation_history = DOMAIN appended
          /\ \A u \in DOMAIN appended :
                LET n == Len(appended[u])
                    m == IF n < 50 THEN n ELSE 50
                IN /\ Len(conversation_history[u]) <= 50
                   /\ conversation_history[u]
                          = SubSeq(appended[u], n - m + 1, n))
    /\ [][\A u \in DOMAIN appended :
             appended'[u] = appended[u]
             => conversation_history'[u] = conversation_history[u]]_vars

\* the 51st entry of user 1 has been appended and the oldest dropped, while
\* user 2's history holds its one entry
C17_Witness ==
    /\ DOMAIN appended = {1, 2}
    /\ Len(appended[1]) = 51
    /\ Len(conversation_history[1]) = 50
    /\ conversation_history[1][1].message = 2
    /\ conversation_history[1][50].message = 51
    /\ Len(conversation_history[2]) = 1

(* ---- C18 ---- *)
\* C18: for today's schedules with work_hours + personal_hours > 0 and no
\* stress penalty, the balance score is 85 when work / personal is at most
\* 1.2, 70 when it is greater than 1.2 and at most 1.5, and 50 otherwise.
C18_ScoreFollowsRatio ==
    (/\ analysis.done
     /\ schedule_env.store = "ok"
     /\ schedule_env.work + schedule_env.personal > 0
     /\ ~(health_data.present /\ health_data.stress_level > 70))
    => analysis.score =
           IF 10 * schedule_env.work <= 12 * schedule_env.personal THEN 85
           ELSE IF 10 * schedule_env.work <= 15 * schedule_env.personal THEN 70
           ELSE 50

(* ---- C19 ---- *)
\* C19: with health_data present and stress_level greater than 7 the score
\* is exactly 10 less than the score of the same analysis without health
\* data, on every path of the analysis; otherwise it is not reduced.
C19_StressPenaltyOnEveryPath ==
    analysis.done =>
        analysis.score =
            IF health_data.present /\ health_data.stress_level > 70
            THEN analysis.baseline - 10
            ELSE analysis.baseline

(* ---- C20 ---- *)
\* C20: a run from a fresh state whose task the Communication handler
\* handled while the LLM was unavailable and the schedule store empty ends
\* with a non-empty ai_response, a "*_completed" system_status and no entry
\* in error_messages.
C20_CommunicationFallbackRun ==
    (/\ pc = "END"
     /\ visited = <<"supervisor", "communication_agent">>
     /\ last.node = "communication_agent"
     /\ last.outcome # "noop"
     /\ last.env = [llm |-> "fail", store |-> "ok", fault |-> "none"])
    => /\ ai_response.agent = "communication_agent"
       /\ ai_response.kind \in {"fallback", "canned"}
       /\ system_status = "communication_completed"
       /\ error_messages = <<>>

\* the run ended with the fallback sentence of the schedule intent, the
\* Supervisor having fallen back to its default task
C20_Witness ==
    /\ pc = "END"
    /\ visited = <<"supervisor", "communication_agent">>
    /\ decision = [agent |-> "communication_agent",
                   description |-> DEFAULT_DESCRIPTION, priority |-> 5]
    /\ last.env = [llm |-> "fail", store |-> "ok", fault |-> "none"]
    /\ "schedule" \in user_input
    /\ ai_response = [agent |-> "communication_agent", kind |-> "fallback"]
    /\ task_history[1].done

(* ------------- claims on data passed between handlers ---------------- *)
\* C21: a later handler of a run reads the record an earlier handler of the
\* same run wrote: when the WorkLife handler is visited in a run whose
\* Health handler has written health_data, it executes its analysis (with
\* that record in the state)
C21_WorkLifeReadsHealthOfRun ==
    (last.node = WORKLIFE /\ health_data.present) => last.outcome # "noop"

\* what the engines do instead: whenever the WorkLife handler executes its
\* analysis, health_data is still the None of create_initial_state
WorkLifeAnalysesWithoutHealth ==
    (last.node = WORKLIFE /\ last.outcome # "noop") => ~health_data.present

(* ------ SpecTransport: the streaming transports (SSE, WebSocket) ------ *)
\* generate_stream_response (POST /chat) and generate_websocket_stream
\* (/ws/chat) do not use an engine: they call the nodes themselves
Transports == {"sse", "ws"}

\* the session id of the request; "none" is a request that carries none
SessionIds == {"none", "test_ws_001"}

\* the handlers the transports import and call after the Supervisor, in
\* the order they call them
TransportChain == <<PLAN, WORKLIFE, COMM>>

\* the system directive wrapped around the message names the user's time
\* zone, and "시간" is a keyword of the schedule_management intent
enhanced_input(message) == message \cup {"schedule"}

Event(type, node, status, response, session) ==
    [type |-> type, node |-> node, status |-> status, response |-> response,
     session_id |-> session]

NodeStatus(node, status) == Event("node_status", node, status, <<>>, "")

\* the test both transports apply to a handler's result:
\* "ai_response" in result and result["ai_response"]
HasResponse(response) == response # NoResponse

\* the transports run the nodes without an engine
NoEngine == [kind |-> "none", mode |-> ""]

\* the request received and the state create_initial_state returns for it
InitTransport ==
    /\ create_initial_state
    /\ user_input \in {enhanced_input(m) : m \in UserInputs}
    /\ llm_out = Raised
    /\ decision = NoDecision
    /\ llm_calls = 0
    /\ last = NoCall
    /\ sup_runs = 0
    /\ pc = "start"
    /\ visited = <<>>
    /\ engine = NoEngine
    /\ yielded = <<>>
    /\ request \in [transport : Transports, session_id : SessionIds]
    /\ sent = <<>>
    /\ final_ai_response = <<>>
    /\ parked = NoContext
    /\ solo = NoContext
    /\ script = NoScript
    /\ OperationsIdle

\* the first event, sent before the state is created
TransportStart ==
    /\ pc = "start"
    /\ sent' = Append(sent, Event("status", "", "", <<>>, ""))
    /\ pc' = SUPERVISOR
    /\ UNCHANGED <<state, llm_out, decision, llm_calls, last, sup_runs,
                   visited, engine_vars, merge_vars, cache_vars,
                   worklife_vars, request, final_ai_response, session_vars>>

\* supervisor_node(current_state) between its two node_status events;
\* current_state.update(result) leaves the state the node returned
TransportSupervisor(out) ==
    /\ request.transport \in Transports
    /\ pc = SUPERVISOR
    /\ supervisor_node(out)
    /\ visited' = Append(visited, SUPERVISOR)
    /\ sent' = sent \o <<NodeStatus(SUPERVISOR, "processing"),
                         NodeStatus(SUPERVISOR, "completed")>>
    /\ pc' = TransportChain[1]
    /\ UNCHANGED <<llm_out, engine_vars, merge_vars, cache_vars,
                   worklife_vars, request, final_ai_response, session_vars>>

\* one handler of the chain: its processing event, the call, and either an
\* ai_response event with the result's ai_response, which is also added to
\* final_ai_response (set by the Plan step, appended to by the others), or
\* the "completed (no response)" node_status event
TransportHandler(h, env) ==
    /\ request.transport \in Transports
    /\ \E i \in 1..Len(TransportChain) :
          /\ TransportChain[i] = h
          /\ pc = h
          /\ pc' = IF i < Len(TransportChain) THEN TransportChain[i + 1]
                   ELSE "complete"
    /\ handler_node(h, env)
    /\ visited' = Append(visited, h)
    /\ sent' = sent \o
          <<NodeStatus(h, "processing"),
            IF HasResponse(ai_response')
            THEN Event("ai_response", h, "", <<ai_response'>>, "")
            ELSE NodeStatus(h, "completed (no response)")>>
    /\ final_ai_response' =
          IF ~HasResponse(ai_response') THEN final_ai_response
          ELSE IF h = PLAN \/ final_ai_response = <<>> THEN <<ai_response'>>
          ELSE Append(final_ai_response, ai_response')
    /\ UNCHANGED <<llm_out, decision, llm_calls, sup_runs, engine_vars,
                   merge_vars, cache_vars, worklife_vars, request,
                   session_vars>>

\* a [DONE] event closing the WebSocket exchange as well
AfterComplete_always_stream_end(transport) == "stream_end"

\* what follows the terminal event: the SSE stream sends its [DONE] event,
\* the WebSocket generator returns
AfterComplete(transport) ==
    IF transport = "sse" THEN "stream_end" ELSE "END"

\* the terminal event: final_ai_response and the request's session id
TransportComplete ==
    /\ pc = "complete"
    /\ sent' = Append(sent, Event("complete", "", "", final_ai_response,
                                  request.session_id))
    /\ pc' = AfterComplete(request.transport)
    /\ UNCHANGED <<state, llm_out, decision, llm_calls, last, sup_runs,
                   visited, engine_vars, merge_vars, cache_vars,
                   worklife_vars, request, final_ai_response, session_vars>>

\* the SSE stream's closing [DONE] event
TransportStreamEnd ==
    /\ pc = "stream_end"
    /\ sent' = Append(sent, Event("end", "", "", <<>>, ""))
    /\ pc' = "END"
    /\ UNCHANGED <<state, llm_out, decision, llm_calls, last, sup_runs,
                   visited, engine_vars, merge_vars, cache_vars,
                   worklife_vars, request, final_ai_response, session_vars>>

NextTransport ==
    \/ TransportStart
    \/ \E out \in NodeOutcomes : TransportSupervisor(out)
    \/ \E h \in Handlers, env \in Envs : TransportHandler(h, env)
    \/ TransportComplete
    \/ TransportStreamEnd

SpecTransport == InitTransport /\ [][NextTransport]_vars

\* the client keeps reading and every node call returns, so the generator
\* runs to its end
FairTransport == SpecTransport /\ WF_vars(NextTransport)

(* ------ SpecRuns: one run from a fresh state, by any of the three ----- *)
\* the compiled graph, the mock engine, or a streaming transport
InitRuns == InitEngine \/ InitTransport

NextRuns == NextEngine \/ NextTransport

SpecRuns == InitRuns /\ [][NextRuns]_vars

(* ------------------- claims on the streaming transports --------------- *)
\* the handlers have all been called
TransportRan == pc \in {"complete", "stream_end", "END"}

\* C23: in the streaming transports the handler named by current_task.agent
\* is invoked after the Supervisor step, whichever of the five handlers the
\* Supervisor chose
C23_ChosenHandlerIsInvoked ==
    (/\ TransportRan
     /\ current_task # NoTask
     /\ task_history[current_task].agent \in Handlers)
    => \E i \in 1..Len(visited) :
          visited[i] = task_history[current_task].agent

\* the kinds of message that report progress
ProgressTypes == {"status", "node_status", "ai_response"}

WebSocketMessagesInOrder ==
    request.transport = "ws" =>
       /\ \A i \in 1..Len(sent) :
             IF sent[i].type = "complete"
             THEN /\ i = Len(sent)
                  /\ pc = "END"
                  /\ sent[i].response = final_ai_response
                  /\ sent[i].session_id = request.session_id
             ELSE sent[i].type \in ProgressTypes
       /\ pc = "END" => sent # <<>> /\ sent[Len(sent)].type = "complete"

WebSocketRequestEnded == request.transport = "ws" => pc = "END"

\* C24: the messages of a WebSocket chat request are progress messages
\* followed by exactly one "complete" message, which carries the final
\* response and the request's session id and is the last message sent; and
\* every request gets to that message
C24_CompleteIsOnceAndLast ==
    /\ []WebSocketMessagesInOrder
    /\ <>WebSocketRequestEnded

C24_Witness ==
    /\ request.transport = "ws"
    /\ pc = "END"
    /\ Len(sent) > 1
    /\ sent[Len(sent)].type = "complete"
    /\ sent[Len(sent)].response # <<>>
    /\ sent[Len(sent)].session_id = "test_ws_001"
    /\ \E i \in 1..(Len(sent) - 1) : sent[i].type = "node_status"

\* C25: an ai_response event is sent only for the handler that produced the
\* narrative it carries (a handler stopped by its guard is reported with
\* "completed (no response)"), and final_ai_response holds each narrative
\* once
C25_NarrativeReportedOnce ==
    /\ \A i \in 1..Len(sent) :
          sent[i].type = "ai_response"
          => sent[i].response[1].agent = sent[i].node
    /\ \A i, j \in 1..Len(final_ai_response) :
          i # j => final_ai_response[i] # final_ai_response[j]

(* ----------------- claims on every way of running -------------------- *)
\* the run is over
RunEnded == pc = "END"

\* C26: in a run started from a fresh state (compiled graph, mock engine or
\* streaming transport) the Supervisor node executes exactly once:
\* supervisor_call_count never exceeds 1, every execution consulted the LLM
\* (the budget branch was not taken), and a finished run has executed it once
C26_SupervisorRunsOnce ==
    /\ sup_runs <= 1
    /\ supervisor_call_count <= 1
    /\ llm_calls = sup_runs
    /\ decision # BudgetTriple
    /\ RunEnded => sup_runs = 1

C26_Witness ==
    /\ RunEnded
    /\ sup_runs = 1
    /\ supervisor_call_count = 1
    /\ Len(visited) > 1

\* a handler's step leaves current_task alone; it leaves the whole state
\* alone when its name is not current_task.agent, and when a handler has
\* already been visited in the run
LaterHandlersReturnState ==
    pc \in Handlers
    => /\ current_task' = current_task
       /\ last'.node = pc
       /\ (current_task = NoTask \/ task_history[current_task].agent # pc)
          => UNCHANGED state
       /\ Len(visited) >= 2
          => (last'.outcome = "noop" /\ UNCHANGED state)

ExceptionPathFrame ==
    (pc \in Handlers /\ last'.node = pc /\ last'.outcome = "error")
    => /\ Len(error_messages') = Len(error_messages) + 1
       /\ system_status' = "error"
       /\ UNCHANGED <<messages, task_history, current_task, ai_response,
                      health_data, schedule_data, worklife_data>>

OwnEntriesAdded ==
    LET added == SubSeq(messages', Len(messages) + 1, Len(messages'))
    IN /\ Len(messages') >= Len(messages)
       /\ SubSeq(messages', 1, Len(messages)) = messages
       /\ (pc \in Handlers \cup {SUPERVISOR} /\ last'.outcome = "ok")
          => IF pc = COMM
             THEN /\ Len(added) = 2
                  /\ added[1].role = "user"
                  /\ added[1].content = "user_input"
                  /\ added[2].role = "assistant"
                  /\ added[2].agent = COMM
             ELSE /\ Len(added) = 1
                  /\ added[1].role = "assistant"
                  /\ added[1].agent = pc
       /\ \A i \in 1..Len(added) : added[i].role = "user" => pc = COMM
       /\ \A i \in 1..Len(messages') :
             messages'[i].role = "user"
             => (/\ current_task' # NoTask
                 /\ task_history'[current_task'].agent = COMM)

\* C29: on success the Supervisor and the Health, Plan, Data and WorkLife
\* handlers extend messages by one assistant entry tagged with their own
\* name and the Communication handler by a user entry holding user_input
\* followed by its assistant entry; no other node appends a user entry, so
\* messages holds the user's input only in a run handled by Communication
C29_MessagesGrowByOwnEntries == [][OwnEntriesAdded]_vars

C29_Witness ==
    /\ last.node = COMM
    /\ last.outcome = "ok"
    /\ Len(messages) = 3
    /\ messages[1].agent = SUPERVISOR
    /\ messages[2].role = "user"
    /\ messages[3].agent = COMM

(* ---- SpecPair: the same request run by the mock engine, then by the
        compiled graph, with the same outcomes of the external calls ---- *)
\* the SharedState as a value
Context ==
    [messages |-> messages, user_input |-> user_input,
     ai_response |-> ai_response, task_history |-> task_history,
     current_task |-> current_task,
     supervisor_call_count |-> supervisor_call_count,
     health_data |-> health_data, schedule_data |-> schedule_data,
     worklife_data |-> worklife_data, system_status |-> system_status,
     error_messages |-> error_messages]

\* the outcomes of the external calls of one request: the Supervisor's LLM
\* call and the environment of the handler that passes its guard
Scripts == [out : NodeOutcomes, env : Envs]

\* the step takes the outcomes the script names
FollowsScript ==
    /\ pc = SUPERVISOR
       => decision' = decide_next_task(supervisor_call_count, script.out)
    /\ (pc \in Handlers /\ last'.outcome # "noop") => last'.env = script.env

InitPair ==
    /\ create_initial_state
    /\ llm_out = Raised
    /\ decision = NoDecision
    /\ llm_calls = 0
    /\ last = NoCall
    /\ sup_runs = 0
    /\ pc = SUPERVISOR
    /\ visited = <<>>
    /\ engine = [kind |-> "mock", mode |-> "astream"]
    /\ yielded = <<>>
    /\ request = NoRequest
    /\ sent = <<>>
    /\ final_ai_response = <<>>
    /\ parked = NoContext
    /\ solo = NoContext
    /\ script \in Scripts
    /\ OperationsIdle

PairedMockSupervisor == MockSupervisor /\ FollowsScript

PairedMockHandler == MockHandler /\ FollowsScript

\* the mock engine's final state is kept and the same request is given to
\* the compiled graph, from a state create_initial_state builds afresh
SecondEngine ==
    /\ pc = "END"
    /\ engine.kind = "mock"
    /\ solo' = [present |-> TRUE, state |-> Context]
    /\ engine' = [kind |-> "graph", mode |-> engine.mode]
    /\ messages' = <<>>
    /\ ai_response' = NoResponse
    /\ task_history' = <<>>
    /\ current_task' = NoTask
    /\ supervisor_call_count' = 0
    /\ health_data' = NoHealth
    /\ schedule_data' = NoSchedule
    /\ worklife_data' = NoWorkLife
    /\ system_status' = "initialized"
    /\ error_messages' = <<>>
    /\ decision' = NoDecision
    /\ llm_calls' = 0
    /\ last' = NoCall
    /\ sup_runs' = 0
    /\ pc' = SUPERVISOR
    /\ visited' = <<>>
    /\ yielded' = <<>>
    /\ UNCHANGED <<user_input, llm_out, merge_vars, cache_vars,
                   worklife_vars, transport_vars, parked, script>>

PairedGraphSupervisor == GraphSupervisor /\ FollowsScript

PairedGraphHandler == GraphHandler /\ FollowsScript

NextPair ==
    \/ PairedMockSupervisor
    \/ PairedMockHandler
    \/ SecondEngine
    \/ PairedGraphSupervisor
    \/ PairedGraphHandler
    \/ GraphEngineError

SpecPair == InitPair /\ [][NextPair]_vars

\* both engines have run the request
BothEnded == engine.kind = "graph" /\ pc = "END" /\ solo # NoContext

\* C28: for every Supervisor decision and every outcome of the external
\* calls, the mock engine and the compiled graph end the run of a request
\* with the same SharedState
C28_EnginesEndAlike == BothEnded => Context = solo.state

\* the engines end alike whenever the task's agent is one of the five
\* handlers or the Supervisor produced no task
EnginesEndAlikeOnHandlers ==
    (/\ BothEnded
     /\ IF solo.state.current_task = NoTask THEN TRUE
        ELSE solo.state.task_history[solo.state.current_task].agent
                \in Handlers)
    => Context = solo.state

(* -- SpecSessions: two requests of different sessions on one event loop -- *)
\* the first request is served alone and its final SharedState is kept;
\* then it is served again, from a fresh state and with the same outcomes
\* of its external calls, while a second request is being served: each is
\* a coroutine of generate_stream_response, and the event loop runs one of
\* them at a time, switching at their awaits and yields
FirstSession == "test_ws_001"
SecondSession == "test_ws_002"

\* the outcomes of the Supervisor's LLM call tried for the two requests
SessionOutcomes ==
    {Raised}
    \cup {Reply(<<[colon |-> TRUE, key |-> "agent", value |-> a]>>) :
              a \in {PLAN, WORKLIFE, HEALTH}}

SessionScripts == [out : SessionOutcomes, env : Envs]

StateFields ==
    {"messages", "user_input", "ai_response", "task_history", "current_task",
     "supervisor_call_count", "health_data", "schedule_data", "worklife_data",
     "system_status", "error_messages"}

\* error_messages being one module-level list handed to every state
RequestOwns_shared_error_list == StateFields \ {"error_messages"}

\* the fields whose object belongs to the request's own state: every list
\* and dict is built by create_initial_state's call, and the nodes put new
\* objects or mutate those
RequestOwns == StateFields

\* the state create_initial_state returns for an input
InitialState(input) ==
    [messages |-> <<>>, user_input |-> input, ai_response |-> NoResponse,
     task_history |-> <<>>, current_task |-> NoTask,
     supervisor_call_count |-> 0, health_data |-> NoHealth,
     schedule_data |-> NoSchedule, worklife_data |-> NoWorkLife,
     system_status |-> "initialized", error_messages |-> <<>>]

\* what a suspended coroutine's state shows: its own objects as it left
\* them, and any object it shares as it is now
Seen(saved) ==
    [f \in StateFields |-> IF f \in RequestOwns THEN saved[f] ELSE Context[f]]

\* a coroutine's frame: its state and its locals
Frame ==
    [present |-> TRUE, state |-> Context, pc |-> pc, request |-> request,
     sent |-> sent, final_ai_response |-> final_ai_response,
     visited |-> visited, script |-> script]

InitSessions ==
    /\ create_initial_state
    /\ user_input \in {enhanced_input(m) : m \in UserInputs}
    /\ llm_out = Raised
    /\ decision = NoDecision
    /\ llm_calls = 0
    /\ last = NoCall
    /\ sup_runs = 0
    /\ pc = "start"
    /\ visited = <<>>
    /\ engine = NoEngine
    /\ yielded = <<>>
    /\ request = [transport |-> "sse", session_id |-> FirstSession]
    /\ sent = <<>>
    /\ final_ai_response = <<>>
    /\ parked = NoContext
    /\ solo = NoContext
    /\ script \in SessionScripts
    /\ OperationsIdle

\* the running coroutine's next step, with the outcomes of its script
ServeStart == TransportStart

ServeSupervisor == TransportSupervisor(script.out)

ServeHandler == \E h \in Handlers : TransportHandler(h, script.env)

ServeComplete == TransportComplete

ServeStreamEnd == TransportStreamEnd

\* the first request has been served alone: its final state is kept, the
\* same request arrives again and a second request arrives with it
ServeTogether ==
    /\ pc = "END"
    /\ solo = NoContext
    /\ solo' = [present |-> TRUE, state |-> Context]
    /\ messages' = <<>>
    /\ ai_response' = NoResponse
    /\ task_history' = <<>>
    /\ current_task' = NoTask
    /\ supervisor_call_count' = 0
    /\ health_data' = NoHealth
    /\ schedule_data' = NoSchedule
    /\ worklife_data' = NoWorkLife
    /\ system_status' = "initialized"
    /\ error_messages' = <<>>
    /\ pc' = "start"
    /\ visited' = <<>>
    /\ sent' = <<>>
    /\ final_ai_response' = <<>>
    /\ \E m \in UserInputs, s \in SessionScripts :
          parked' = [present |-> TRUE,
                     state |-> InitialState(enhanced_input(m)),
                     pc |-> "start",
                     request |-> [transport |-> "sse",
                                  session_id |-> SecondSession],
                     sent |-> <<>>, final_ai_response |-> <<>>,
                     visited |-> <<>>, script |-> s]
    /\ UNCHANGED <<user_input, llm_out, decision, llm_calls, last, sup_runs,
                   engine_vars, merge_vars, cache_vars, worklife_vars,
                   request, script>>

\* the event loop suspends the running coroutine and resumes the other
Switch ==
    /\ parked # NoContext
    /\ parked' = Frame
    /\ messages' = Seen(parked.state).messages
    /\ user_input' = Seen(parked.state).user_input
    /\ ai_response' = Seen(parked.state).ai_response
    /\ task_history' = Seen(parked.state).task_history
    /\ current_task' = Seen(parked.state).current_task
    /\ supervisor_call_count' = Seen(parked.state).supervisor_call_count
    /\ health_data' = Seen(parked.state).health_data
    /\ schedule_data' = Seen(parked.state).schedule_data
    /\ worklife_data' = Seen(parked.state).worklife_data
    /\ system_status' = Seen(parked.state).system_status
    /\ error_messages' = Seen(parked.state).error_messages
    /\ pc' = parked.pc
    /\ request' = parked.request
    /\ sent' = parked.sent
    /\ final_ai_response' = parked.final_ai_response
    /\ visited' = parked.visited
    /\ script' = parked.script
    /\ UNCHANGED <<llm_out, decision, llm_calls, last, sup_runs, engine_vars,
                   merge_vars, cache_vars, worklife_vars, solo>>

NextSessions ==
    \/ ServeStart
    \/ ServeSupervisor
    \/ ServeHandler
    \/ ServeComplete
    \/ ServeStreamEnd
    \/ ServeTogether
    \/ Switch

SpecSessions == InitSessions /\ [][NextSessions]_vars

(* ----------------- claims on concurrent requests ---------------------- *)
\* the first request's state and position while both requests are served
FirstRequest ==
    IF request.session_id = FirstSession
    THEN [state |-> Context, pc |-> pc]
    ELSE [state |-> Seen(parked.state), pc |-> parked.pc]

\* the first request, served together with the second, ends in the state
\* it ended in when served alone
EndsAsAlone ==
    (solo # NoContext /\ parked # NoContext /\ FirstRequest.pc = "END")
    => FirstRequest.state = solo.state

\* a step of the running request leaves the suspended request's frame as
\* it is; the frame changes only when the event loop switches
OtherFrameUntouched ==
    (parked # NoContext /\ parked' # parked)
    => (parked'.request # parked.request /\ parked' = Frame)

====
